---------------------------- MODULE Spec2Model ----------------------------
(***************************************************************************)
(* A model of utils/chunker.py (class TextChunker): construction, the      *)
(* token-window walk of chunk_text and the per-document bookkeeping of     *)
(* chunk_documents, and the character-based simple_split.                  *)
(*                                                                         *)
(* A text is a sequence of characters. The tokenizer (tiktoken, used by   *)
(* the chunker through self.encoding.encode / decode) is modelled by a     *)
(* small byte-pair vocabulary: it merges a blank with a following letter   *)
(* into one token, so the token count differs from the character count,    *)
(* it replaces an unpaired surrogate by the replacement character, so      *)
(* decode(encode(t)) is not always t, and it refuses a text that holds a   *)
(* special token.                                                          *)
(***************************************************************************)
EXTENDS Integers, Sequences, FiniteSets, TLC

\* ------------------------------------------------------------ bounds

\* Longest text handed to chunk_text, in characters.
MaxLen == 4
\* Largest chunk_size and chunk_overlap a chunker is constructed with.
MaxSize == 3
\* Most documents handed to chunk_documents.
MaxDocs == 2
\* Longest text handed to simple_split, in characters, and largest
\* max_length.
MaxSplitLen == 5
\* The model stops a walk that makes no progress after this many chunks; a
\* walk of a text of at most MaxLen tokens that advances never gets there.
MaxIter == MaxLen + 2
\* Retriever: store instances per Retriever, texts per add_documents.
MaxInst == 2
MaxTexts == 2

\* ------------------------------------------------------------ texts

\* "a": a letter, " ": whitespace, "u": an unpaired surrogate,
\* "x": the text of a special token (such as <|endoftext|>).
Chars == {"a", " ", "u", "x"}

Texts == UNION {[1..n -> Chars] : n \in 0..MaxLen}

\* The documents chunk_documents is tried on: empty, blank, one token,
\* several tokens, a text the tokenizer refuses.
DocTexts ==
    { <<>>, <<" ">>, <<"a">>, <<"a", " ", "a">>,
      <<"a", " ", "a", " ", "a">>, <<"x">> }

DocLists == UNION {[1..n -> DocTexts] : n \in 0..MaxDocs}

Min(a, b) == IF a <= b THEN a ELSE b
Max(a, b) == IF a >= b THEN a ELSE b

\* ------------------------------------------------------------ tokenizer

\* Vocab[id] is the character string of token id. "r" is the replacement
\* character U+FFFD.
Vocab == << <<"a">>, <<" ">>, <<" ", "a">>, <<"r">> >>

\* encode raises on a text that contains a special token.
EncodeRaises(t) == \E i \in 1..Len(t) : t[i] = "x"

RECURSIVE EncodeFrom(_, _)
EncodeFrom(t, i) ==
    IF i > Len(t) THEN <<>>
    ELSE IF t[i] = " " /\ i < Len(t) /\ t[i + 1] = "a"
         THEN <<3>> \o EncodeFrom(t, i + 2)
         ELSE <<(CASE t[i] = "a" -> 1 [] t[i] = " " -> 2 [] OTHER -> 4)>>
              \o EncodeFrom(t, i + 1)

\* self.encoding.encode(text)
Encode(t) == EncodeFrom(t, 1)

RECURSIVE Decode(_)
\* self.encoding.decode(tokens)
Decode(toks) ==
    IF toks = <<>> THEN <<>> ELSE Vocab[Head(toks)] \o Decode(Tail(toks))

\* Python's s[lo:hi]: a negative index counts from the end, and both are
\* clamped to 0..len(s).
PyIndex(i, n) == IF i < 0 THEN Max(i + n, 0) ELSE Min(i, n)
PySlice(s, lo, hi) == SubSeq(s, PyIndex(lo, Len(s)) + 1, PyIndex(hi, Len(s)))

\* ------------------------------------------------------------ chunk_text

\* IsBlank with the strip() test left out: only "not text".
IsBlankEmptyOnly(t) == t = <<>>

\* not text or not text.strip()
IsBlank(t) == t = <<>> \/ \A i \in 1..Len(t) : t[i] = " "

\* SingleChunk returning the round trip through the tokenizer.
SingleChunkDecoded(t, toks) == <<Decode(toks)>>

\* SingleChunk returning the still empty chunks list.
SingleChunkDropsText(t, toks) == <<>>

\* return [text]
SingleChunk(t, toks) == <<t>>

\* EndIdx without the clamp to the token count.
EndIdxNoClamp(start, size, total) == start + size

\* EndIdx with the window one token too wide.
EndIdxOffByOne(start, size, total) == Min(start + size + 1, total)

\* end_idx = min(start_idx + self.chunk_size, total_tokens)
EndIdx(start, size, total) == Min(start + size, total)

\* NextStart stepping one token too far.
NextStartSkips(end, overlap) == end - overlap + 1

\* NextStart overlapping one token too many.
NextStartOverlapsMore(end, overlap) == end - overlap - 1

\* NextStart without the overlap.
NextStartIgnoresOverlap(end, overlap) == end

\* start_idx = end_idx - self.chunk_overlap
NextStart(end, overlap) == end - overlap

\* chunk_text's while loop run to its end, as one function: the chunks
\* appended to acc from start_idx = start on. (The walk is cut after MaxIter
\* chunks, like LoopStep.)
RECURSIVE WalkFn(_, _, _, _, _)
WalkFn(toks, start, size, overlap, acc) ==
    IF ~(start < Len(toks)) \/ Len(acc) >= MaxIter THEN acc
    ELSE LET end_idx == EndIdx(start, size, Len(toks))
             acc2 == Append(acc, Decode(PySlice(toks, start, end_idx)))
         IN  IF end_idx = Len(toks) THEN acc2
             ELSE WalkFn(toks, NextStart(end_idx, overlap), size, overlap, acc2)

\* What chunk_text(t) returns when it runs alone and the tokenizer encodes t.
ChunkTextFn(t, size, overlap) ==
    IF IsBlank(t) THEN <<>>
    ELSE LET toks == Encode(t)
         IN  IF Len(toks) <= size THEN SingleChunk(t, toks)
             ELSE WalkFn(toks, 0, size, overlap, <<>>)

\* ------------------------------------------------------------ simple_split

\* The characters of simple_split's texts: a letter and a line break.
SplitChars == {"a", "\n"}

\* The text of the worked example: "ab\n\ncd\n\nefghij".
ExampleText ==
    << "a", "b", "\n", "\n", "c", "d", "\n", "\n",
       "e", "f", "g", "h", "i", "j" >>

SplitTexts ==
    UNION {[1..n -> SplitChars] : n \in 0..MaxSplitLen} \cup {ExampleText}

\* The separators simple_split is tried with: the default "\n\n", "\n", and
\* the empty string (which str.split refuses).
Separators == { <<>>, <<"\n">>, <<"\n", "\n">> }

\* text.split(separator), separator not empty: the pieces between the
\* occurrences of separator, found left to right without overlap. cur is
\* the piece collected since the last occurrence.
RECURSIVE SplitFrom(_, _, _, _)
SplitFrom(t, sep, i, cur) ==
    IF i > Len(t) THEN <<cur>>
    ELSE IF /\ i + Len(sep) - 1 <= Len(t)
            /\ SubSeq(t, i, i + Len(sep) - 1) = sep
         THEN <<cur>> \o SplitFrom(t, sep, i + Len(sep), <<>>)
         ELSE SplitFrom(t, sep, i + 1, Append(cur, t[i]))

\* parts = text.split(separator)
Split(t, sep) == SplitFrom(t, sep, 1, <<>>)

\* Fits with "<" for "<=".
FitsStrict(cur, part, sep, m) == Len(cur) + Len(part) + Len(sep) < m

\* Fits without the separator's length.
FitsIgnoresSeparator(cur, part, sep, m) == Len(cur) + Len(part) <= m

\* len(current_chunk) + len(part) + len(separator) <= max_length
Fits(cur, part, sep, m) == Len(cur) + Len(part) + Len(sep) <= m

\* Joined without the separator.
JoinedNoSeparator(cur, sep, part) == cur \o part

\* if current_chunk: current_chunk += separator + part
\* else: current_chunk = part
Joined(cur, sep, part) == IF cur # <<>> THEN cur \o sep \o part ELSE part

\* Flushed without the test of current_chunk.
FlushedAlways(chs, cur) == Append(chs, cur)

\* if current_chunk: chunks.append(current_chunk)
Flushed(chs, cur) == IF cur # <<>> THEN Append(chs, cur) ELSE chs

VARIABLES
    pc,            \* where the chunker's user is: new, idle, loop, ...
    chunk_size,    \* self.chunk_size
    chunk_overlap, \* self.chunk_overlap
    encoding,      \* self.encoding (the name of the tiktoken encoding it is)
    caller,        \* who called chunk_text: "user" or "chunk_documents"
    text,          \* chunk_text's argument
    tokens,        \* chunk_text's tokens
    start_idx,     \* chunk_text's start_idx
    chunks,        \* chunk_text's chunks
    ranges,        \* the token range <<start_idx, end_idx>> behind each chunk
    encode_calls,  \* how often this chunk_text call ran the tokenizer's encode
    result,        \* what chunk_text returned
    documents,     \* chunk_documents' argument
    doc_id,        \* chunk_documents' doc_id
    chunked_docs,  \* chunk_documents' chunked_docs
    split_text,    \* simple_split's text
    max_length,    \* simple_split's max_length
    separator,     \* simple_split's separator
    parts,         \* simple_split's parts
    part_idx,      \* how many parts simple_split's for loop has done
    current_chunk, \* simple_split's current_chunk
    split_chunks,  \* simple_split's chunks
    cur_first,     \* the index (from 1) of the part current_chunk starts with
    chunk_spans,   \* for each chunk, the <<first, last>> parts it was built from
    tpc,           \* per thread: where its call is
    targ,          \* per thread: the operation it called and the argument
    tres,          \* per thread: what its call returned
    frames,        \* per call frame: the locals of chunk_text / chunk_documents
    overlapped,    \* per thread: another thread took a step during its call
    rpc,           \* where the Retriever's user is: new, idle
    relevance_available, \* RELEVANCE_AVAILABLE
    stores,        \* self._stores: store type -> store instance
    insts,         \* the store instances created so far
    backend,       \* the vector databases behind the stores
    op,            \* the last Retriever operation and its arguments
    outcome,       \* how it ended: ok or raised
    ret,           \* what it returned
    calls,         \* the calls it made on stores and backends, in order
    stored         \* the records the last add_texts wrote

vars == << pc, chunk_size, chunk_overlap, encoding, caller, text, tokens, start_idx,
           chunks, ranges, encode_calls, result, documents, doc_id,
           chunked_docs, split_text, max_length, separator, parts, part_idx,
           current_chunk, split_chunks, cur_first, chunk_spans,
           tpc, targ, tres, frames, overlapped,
           rpc, relevance_available, stores, insts, backend, op, outcome, ret,
           calls, stored >>

config == << chunk_size, chunk_overlap, encoding >>
textVars == << text, tokens, start_idx, chunks, ranges, encode_calls, result >>
docVars == << documents, doc_id, chunked_docs >>
splitVars == << split_text, max_length, separator, parts, part_idx,
                current_chunk, split_chunks, cur_first, chunk_spans >>
threadVars == << tpc, targ, tres, frames, overlapped >>
retrVars == << rpc, relevance_available, stores, insts, backend, op, outcome,
              ret, calls, stored >>

\* The threads that call the one chunker.
Threads == {1, 2}

\* A call frame whose locals are not yet assigned.
EmptyFrame ==
    [text |-> <<>>, tokens |-> <<>>, start_idx |-> 0, chunks |-> <<>>,
     documents |-> <<>>, doc_id |-> 0, doc_chunks |-> <<>>,
     chunked_docs |-> <<>>]


\* ------------------------------------------------------------ the Retriever

\* StoreType = Literal["pinecone", "weaviate", "relevance"]
StoreTypes == {"pinecone", "weaviate", "relevance"}

\* The store_type arguments tried: the three types and an unknown one.
StoreArgs == StoreTypes \cup {"other"}

\* self._stores = {}
NoStores == [t \in {} |-> 0]

\* A vector database that holds no records (its index / collection absent
\* or empty).
NoData == [filled |-> FALSE]

\* No operation yet.
NoOp == [name |-> "none", store_type |-> "none", texts |-> <<>>,
         filter_dict |-> "None", top_k |-> 0, stores |-> <<>>]


\* ------------------------------------------------- the Retriever's stores

\* The texts handed to the stores: empty, whitespace only, and a word.
StoreTexts == { <<>>, <<" ">>, <<"a">> }

\* The lists of texts add_documents is called with.
TextLists == UNION {[1..n -> StoreTexts] : n \in 0..MaxTexts}

\* The query text of retrieve.
QueryText == <<"q">>

\* top_k: retrieve's default and the examples' value.
TopKs == {3, 8}

\* filter_dict: None or a metadata filter.
Filters == {"None", "category_ai"}

\* Which call on a backend fails during an operation (none: all succeed).
Faults == {"none", "ctor", "create", "embed", "write", "query", "delete"}

\* The embedding the service computes from text t.
Embedding(t) == [of |-> t]

\* A call made during an operation, on or by a store of type t, with the
\* namespace and filter it carries (queries only).
Call(name, t, id, ns, f) ==
    [name |-> name, store |-> t, namespace |-> ns, filter |-> f]

\* The Retriever's world: its cache, the instances it made, the databases.
World == [stores |-> stores, insts |-> insts, backend |-> backend]

\* An operation (or a step of one) that raised: nothing changed in w beyond
\* what is in it already.
Raised(w, cs) == [w |-> w, out |-> "raised", ret |-> <<>>, calls |-> cs,
                  stored |-> <<>>, id |-> 0]

Done(w, r, cs, st, id) == [w |-> w, out |-> "ok", ret |-> r, calls |-> cs,
                           stored |-> st, id |-> id]

\* PineconeStore(...), WeaviateStore(...), RelevanceStore(...): a new
\* instance; Pinecone's index is None, Weaviate holds an open connection.
NewInst(t) == [type |-> t, index |-> FALSE, open |-> t = "weaviate"]

\* _get_store that caches the store under one fixed key.
GetStoreOneKey(w, t, fault) ==
    IF "pinecone" \in DOMAIN w.stores
    THEN Done(w, <<>>, <<>>, <<>>, w.stores["pinecone"])
    ELSE IF t \in StoreTypes /\ fault # "ctor"
    THEN LET id == Len(w.insts) + 1
         IN  Done([w EXCEPT !.insts = Append(@, NewInst(t)),
                            !.stores = [k \in {"pinecone"} |-> id]],
                  <<>>, << Call("ctor", t, id, "", "None") >>, <<>>, id)
    ELSE Raised(w, <<>>)

\* Retriever._get_store(store_type): the cached instance, or a new one put
\* in the cache; raises for relevance when it is unavailable, for an unknown
\* type, and when the store's constructor raises.
GetStore(w, t, fault) ==
    IF t \in DOMAIN w.stores
    THEN Done(w, <<>>, <<>>, <<>>, w.stores[t])
    ELSE IF t \notin StoreTypes THEN Raised(w, <<>>)
    ELSE IF t = "relevance" /\ ~relevance_available THEN Raised(w, <<>>)
    ELSE IF fault = "ctor" THEN Raised(w, << Call("ctor", t, 0, "", "None") >>)
    ELSE LET id == Len(w.insts) + 1
         IN  Done([w EXCEPT !.insts = Append(@, NewInst(t)),
                            !.stores = [k \in DOMAIN w.stores \cup {t} |->
                                          IF k = t THEN id ELSE w.stores[k]]],
                  <<>>, << Call("ctor", t, id, "", "None") >>, <<>>, id)

\* store.create_index() / create_schema() / create_collection(): the index
\* (schema, collection) is created unless it exists, with the records it
\* holds untouched; PineconeStore sets self.index.
StoreCreate(w, t, id, fault) ==
    IF fault = "create"
    THEN Raised(w, << Call("create", t, id, "", "None") >>)
    ELSE Done([w EXCEPT !.insts[id].index = (@ \/ t = "pinecone")],
              <<>>, << Call("create", t, id, "", "None") >>, <<>>, id)

\* t and t.strip(): the text is neither empty nor whitespace only.
HasContent(t) == t # <<>> /\ \E i \in 1..Len(t) : t[i] # " "

\* Embedder.embed_batch(texts): the embeddings of the texts that are left
\* after the empty and whitespace-only ones are filtered out.
EmbedBatch(texts) ==
    LET valid_texts == SelectSeq(texts, HasContent)
    IN  [i \in 1..Len(valid_texts) |-> Embedding(valid_texts[i])]

\* zip(texts, embeddings) as the records the stores build from it.
Zip(texts, embeddings) ==
    [i \in 1..Min(Len(texts), Len(embeddings)) |->
        [text |-> texts[i], vector |-> embeddings[i]]]

\* Whether a database holds records after k records are written to it.
Written(filled, k) == filled \/ k > 0

\* store.add_texts(texts, metadata) of the store of type t, called by
\* add_documents right after the store's create (so that the schema or
\* collection the Weaviate and Relevance AI stores look for exists).
StoreAddTexts(w, t, id, texts, fault) ==
    LET needCreate == t = "pinecone" /\ ~w.insts[id].index
        c == IF needCreate THEN StoreCreate(w, t, id, fault)
             ELSE Done(w, <<>>, <<>>, <<>>, id)
        embeddings == EmbedBatch(texts)
        records == Zip(texts, embeddings)
        embed == IF embeddings # <<>>
                 THEN << Call("embed", t, id, "", "None") >> ELSE <<>>
        write == IF records # <<>> \/ t = "relevance"
                 THEN << Call("write", t, id, "", "None") >> ELSE <<>>
    IN  IF c.out = "raised" THEN c
        ELSE IF texts = <<>> THEN c
        ELSE IF embed # <<>> /\ fault = "embed"
        THEN Raised(c.w, c.calls \o embed)
        ELSE IF write # <<>> /\ fault = "write"
        THEN Raised(c.w, c.calls \o embed \o write)
        ELSE Done([c.w EXCEPT !.backend[t].filled = Written(@, Len(records))],
                  <<>>, c.calls \o embed \o write, records, id)

\* The backend's matches for a query with top_k >= 1: the nearest record of
\* a database that holds records.
Matches(w, t, top_k) ==
    IF w.backend[t].filled /\ top_k >= 1 THEN << [id |-> 1] >> ELSE <<>>

\* The parameters of store.query as retrieve's three positional arguments
\* bind to them: PineconeStore.query(query_text, top_k, namespace,
\* filter_dict), the other two query(query_text, top_k, filter_dict).
QueryParams(t, a1, a2, a3) ==
    IF t = "pinecone"
    THEN [query_text |-> a1, top_k |-> a2, namespace |-> a3,
          filter_dict |-> "None"]
    ELSE [query_text |-> a1, top_k |-> a2, namespace |-> "",
          filter_dict |-> a3]

\* The filter a store's query hands to its backend: Pinecone filter=
\* filter_dict, Relevance AI filters=filter_dict or [], Weaviate none.
BackendFilter(t, filter_dict) ==
    IF t = "weaviate" THEN "None" ELSE filter_dict

\* store.query(a1, a2, a3) of the store of type t: a PineconeStore without
\* self.index returns [] at once; the others embed the query text and query
\* the backend.
StoreQuery(w, t, id, a1, a2, a3, fault) ==
    LET p == QueryParams(t, a1, a2, a3)
        cs == << Call("store.query", t, id, p.namespace, p.filter_dict),
                 Call("embed", t, id, "", "None"),
                 Call("query", t, id, p.namespace,
                      BackendFilter(t, p.filter_dict)) >>
    IN  IF t = "pinecone" /\ ~w.insts[id].index
        THEN Done(w, <<>>, << cs[1] >>, <<>>, id)
        ELSE IF fault = "embed" THEN Raised(w, << cs[1], cs[2] >>)
        ELSE IF fault = "query" THEN Raised(w, cs)
        ELSE Done(w, Matches(w, t, p.top_k), cs, <<>>, id)

\* store.delete_index() / delete_schema() / delete_collection().
StoreDelete(w, t, id, fault) ==
    IF fault = "delete"
    THEN Raised(w, << Call("delete", t, id, "", "None") >>)
    ELSE Done([w EXCEPT !.backend[t] = NoData], <<>>,
              << Call("delete", t, id, "", "None") >>, <<>>, id)

\* ------------------------------------------- the Retriever's operations

\* Step b follows step a in one operation: the calls of both, in order.
After(a, b) == [b EXCEPT !.calls = a.calls \o @]

\* Retriever.add_documents(texts, store_type): get the store, create its
\* index / schema / collection, add the texts; every exception is re-raised.
AddDocumentsOp(w, texts, t, fault) ==
    LET g == GetStore(w, t, fault)
        c == StoreCreate(g.w, t, g.id, fault)
        a == StoreAddTexts(c.w, t, g.id, texts, fault)
    IN  IF g.out = "raised" THEN g
        ELSE IF c.out = "raised" THEN After(g, c)
        ELSE After(g, After(c, a))

\* for result in results: result["store"] = store_type
Tagged(results, t) ==
    [i \in 1..Len(results) |-> [id |-> results[i].id, store |-> t]]

\* Retriever.retrieve(query, store_type, top_k, filter_dict): get the store,
\* store.query(query, top_k, filter_dict), tag the results.
RetrieveOp(w, t, top_k, filter_dict, fault) ==
    LET g == GetStore(w, t, fault)
        q == StoreQuery(g.w, t, g.id, QueryText, top_k, filter_dict, fault)
    IN  IF g.out = "raised" THEN g
        ELSE IF q.out = "raised" THEN After(g, q)
        ELSE After(g, [q EXCEPT !.ret = Tagged(@, t)])

\* The cache without the key t.
Without(st, t) == [k \in DOMAIN st \ {t} |-> st[k]]

\* The instances once instance id is no longer referenced: the object is
\* collected; a Weaviate store's connection stays as it is.
Dropped(is, id) ==
    [is EXCEPT ![id] = [type |-> IF @.type = "weaviate" THEN "weaviate"
                                 ELSE "collected",
                        index |-> FALSE, open |-> @.open]]

\* AfterDelete that evicts the store whether or not the delete raised.
AfterDeleteEvictsAlways(d, t) ==
    [d EXCEPT !.w.stores = Without(@, t), !.w.insts = Dropped(@, d.id)]

\* clear_store after the store's delete: a raise leaves the try block, else
\* del self._stores[store_type].
AfterDelete(d, t) ==
    IF d.out = "raised" THEN d
    ELSE [d EXCEPT !.w.stores = Without(@, t), !.w.insts = Dropped(@, d.id)]

\* Retriever.clear_store(store_type).
ClearStoreOp(w, t, fault) ==
    LET g == GetStore(w, t, fault)
        d == StoreDelete(g.w, t, g.id, fault)
    IN  IF g.out = "raised" THEN g
        ELSE After(g, AfterDelete(d, t))

\* ReplaceOp that goes on to add_documents when clear_store raised.
ReplaceOpIgnoresClear(w, texts, t, fault1, fault2) ==
    LET c == ClearStoreOp(w, t, fault1)
        a == AddDocumentsOp(c.w, texts, t, fault2)
    IN  After([c EXCEPT !.calls =
                  << Call("clear_store", t, 0, "", "None") >> \o @],
              [a EXCEPT !.calls =
                  << Call("add_documents", t, 0, "", "None") >> \o @])

\* Retriever.replace_knowledge_base(texts, store_type): clear_store, then
\* add_documents; an exception of either leaves the method.
ReplaceOp(w, texts, t, fault1, fault2) ==
    LET c == [ClearStoreOp(w, t, fault1) EXCEPT !.calls =
                 << Call("clear_store", t, 0, "", "None") >> \o @]
        a == AddDocumentsOp(c.w, texts, t, fault2)
    IN  IF c.out = "raised" THEN c
        ELSE After(c, [a EXCEPT !.calls =
                          << Call("add_documents", t, 0, "", "None") >> \o @])

\* results[store_type] = v
Put(results, t, v) ==
    [k \in DOMAIN results \cup {t} |-> IF k = t THEN v ELSE results[k]]

\* The calls of one iteration of retrieve_all's loop: the call of retrieve,
\* what it called, and how it ended.
Iteration(t, r) ==
    << Call("retrieve", t, 0, "", "None") >> \o r.calls
        \o << Call(IF r.out = "raised" THEN "retrieve raised"
                   ELSE "retrieve returned", t, 0, "", "None") >>

\* RetrieveAllFrom that lets a store's exception leave retrieve_all.
RECURSIVE RetrieveAllRaises(_, _, _, _, _, _, _)
RetrieveAllRaises(w, top_k, sl, faults, i, results, cs) ==
    IF i > Len(sl) THEN Done(w, results, cs, <<>>, 0)
    ELSE LET r == RetrieveOp(w, sl[i], top_k, "None", faults[i])
         IN  IF r.out = "raised" THEN Raised(r.w, cs \o Iteration(sl[i], r))
             ELSE RetrieveAllRaises(r.w, top_k, sl, faults, i + 1,
                                    Put(results, sl[i], r.ret),
                                    cs \o Iteration(sl[i], r))

\* The for loop of retrieve_all from the i-th store type on: retrieve with
\* top_k and no filter; a store that raises gets the empty list.
RECURSIVE RetrieveAllFrom(_, _, _, _, _, _, _)
RetrieveAllFrom(w, top_k, sl, faults, i, results, cs) ==
    IF i > Len(sl) THEN Done(w, results, cs, <<>>, 0)
    ELSE LET r == RetrieveOp(w, sl[i], top_k, "None", faults[i])
         IN  RetrieveAllFrom(r.w, top_k, sl, faults, i + 1,
                             Put(results, sl[i],
                                 IF r.out = "raised" THEN <<>> ELSE r.ret),
                             cs \o Iteration(sl[i], r))

\* if stores is None: stores = ["pinecone", "weaviate"]
DefaultStores == << "pinecone", "weaviate" >>

\* The stores arguments of retrieve_all that are tried.
StoreLists ==
    { DefaultStores, << "weaviate", "pinecone" >>, << "pinecone", "pinecone" >>,
      << "other", "weaviate" >>, << "relevance" >>, <<>> }

\* WeaviateStore.close(): the client connection is closed.
Closed(is, id) == [is EXCEPT ![id].open = FALSE]

\* Retriever.cleanup(): close every cached store that is a Weaviate store.
CleanupOp(w) ==
    IF "weaviate" \in DOMAIN w.stores
    THEN Done([w EXCEPT !.insts = Closed(@, w.stores["weaviate"])], <<>>,
              << Call("close", "weaviate", w.stores["weaviate"], "", "None") >>,
              <<>>, 0)
    ELSE Done(w, <<>>, <<>>, <<>>, 0)

Init ==
    /\ pc = "new"
    /\ chunk_size = 0
    /\ chunk_overlap = 0
    /\ encoding = "none"
    /\ caller = "none"
    /\ text = <<>>
    /\ tokens = <<>>
    /\ start_idx = 0
    /\ chunks = <<>>
    /\ ranges = <<>>
    /\ encode_calls = 0
    /\ result = <<>>
    /\ documents = <<>>
    /\ doc_id = 0
    /\ chunked_docs = <<>>
    /\ split_text = <<>>
    /\ max_length = 0
    /\ separator = <<>>
    /\ parts = <<>>
    /\ part_idx = 0
    /\ current_chunk = <<>>
    /\ split_chunks = <<>>
    /\ cur_first = 0
    /\ chunk_spans = <<>>
    /\ tpc = [t \in Threads |-> "idle"]
    /\ targ = [t \in Threads |-> <<"none", <<>>>>]
    /\ tres = [t \in Threads |-> <<>>]
    /\ frames = [t \in Threads |-> EmptyFrame]
    /\ overlapped = [t \in Threads |-> FALSE]
    /\ rpc = "new"
    /\ relevance_available = FALSE
    /\ stores = NoStores
    /\ insts = <<>>
    /\ backend = [t \in StoreTypes |-> NoData]
    /\ op = NoOp
    /\ outcome = "none"
    /\ ret = <<>>
    /\ calls = <<>>
    /\ stored = <<>>

\* TextChunker.__init__: stores its arguments, checks nothing.
Construct(size, overlap) ==
    /\ pc = "new"
    /\ chunk_size' = size
    /\ chunk_overlap' = overlap
    /\ encoding' = "cl100k_base"
    /\ pc' = "idle"
    /\ UNCHANGED << caller, textVars, docVars >>
    /\ UNCHANGED << splitVars, threadVars >>
    /\ UNCHANGED retrVars

\* chunk_text up to its loop: the blank test, encode, the single-chunk
\* return, the loop's initialisation.
Enter(t) ==
    /\ text' = t
    /\ start_idx' = 0
    /\ chunks' = <<>>
    /\ IF IsBlank(t)
       THEN /\ tokens' = <<>>
            /\ encode_calls' = 0
            /\ ranges' = <<>>
            /\ result' = <<>>
            /\ pc' = "returned"
       ELSE IF EncodeRaises(t)
       THEN /\ tokens' = <<>>
            /\ encode_calls' = 1
            /\ ranges' = <<>>
            /\ result' = <<>>
            /\ pc' = "raised"
       ELSE /\ tokens' = Encode(t)
            /\ encode_calls' = 1
            /\ IF Len(tokens') <= chunk_size
               THEN /\ ranges' = << <<0, Len(tokens')>> >>
                    /\ result' = SingleChunk(t, tokens')
                    /\ pc' = "returned"
               ELSE /\ ranges' = <<>>
                    /\ result' = <<>>
                    /\ pc' = "loop"

\* ChunkTextCall that clamps self.chunk_size to the text's token count.
ChunkTextCallClamps(t) ==
    /\ pc = "idle"
    /\ caller' = "user"
    /\ Enter(t)
    /\ chunk_size' = IF IsBlank(t) THEN chunk_size
                     ELSE Min(chunk_size, Len(Encode(t)))
    /\ UNCHANGED << chunk_overlap, encoding, docVars >>
    /\ UNCHANGED << splitVars, threadVars >>
    /\ UNCHANGED retrVars

\* A user calls chunker.chunk_text(t).
ChunkTextCall(t) ==
    /\ pc = "idle"
    /\ caller' = "user"
    /\ Enter(t)
    /\ UNCHANGED << config, docVars >>
    /\ UNCHANGED << splitVars, threadVars >>
    /\ UNCHANGED retrVars

\* One iteration of chunk_text's while loop; the iteration that breaks (or
\* finds the loop condition false) returns chunks.
LoopStep ==
    /\ pc = "loop"
    /\ Len(chunks) < MaxIter
    /\ IF start_idx < Len(tokens)
       THEN LET end_idx == EndIdx(start_idx, chunk_size, Len(tokens))
                chunk_tokens == PySlice(tokens, start_idx, end_idx)
            IN  /\ chunks' = Append(chunks, Decode(chunk_tokens))
                /\ ranges' = Append(ranges, <<start_idx, end_idx>>)
                /\ IF end_idx = Len(tokens)
                   THEN /\ result' = chunks'
                        /\ pc' = "returned"
                        /\ UNCHANGED start_idx
                   ELSE /\ start_idx' = NextStart(end_idx, chunk_overlap)
                        /\ UNCHANGED << result, pc >>
       ELSE /\ result' = chunks
            /\ pc' = "returned"
            /\ UNCHANGED << start_idx, chunks, ranges >>
    /\ UNCHANGED << config, caller, text, tokens, encode_calls, docVars >>
    /\ UNCHANGED << splitVars, threadVars >>
    /\ UNCHANGED retrVars

\* DecodeFails with the failure caught and the chunks made so far returned.
DecodeFailsReturnsPartial ==
    /\ pc = "loop"
    /\ Len(chunks) < MaxIter
    /\ start_idx < Len(tokens)
    /\ result' = chunks
    /\ pc' = "returned"
    /\ UNCHANGED << config, caller, text, tokens, start_idx, chunks, ranges,
                    encode_calls, docVars >>
    /\ UNCHANGED << splitVars, threadVars >>
    /\ UNCHANGED retrVars

\* self.encoding.decode(chunk_tokens) raises inside an iteration of the while
\* loop: nothing catches it, so chunk_text ends without a return value.
DecodeFails ==
    /\ pc = "loop"
    /\ Len(chunks) < MaxIter
    /\ start_idx < Len(tokens)
    /\ result' = <<>>
    /\ pc' = "raised"
    /\ UNCHANGED << config, caller, text, tokens, start_idx, chunks, ranges,
                    encode_calls, docVars >>
    /\ UNCHANGED << splitVars, threadVars >>
    /\ UNCHANGED retrVars

\* ------------------------------------------------------------ chunk_documents

\* DocRecords with chunk_id counted from 1.
DocRecordsFromOne(chs, d) ==
    [i \in 1..Len(chs) |->
        [text |-> chs[i], doc_id |-> d, chunk_id |-> i,
         total_chunks |-> Len(chs)]]

\* DocRecords with the chunks of a document in reverse order.
DocRecordsReversed(chs, d) ==
    [i \in 1..Len(chs) |->
        [text |-> chs[Len(chs) - i + 1], doc_id |-> d, chunk_id |-> i - 1,
         total_chunks |-> Len(chs)]]

\* DocRecords with doc_id counted from 1.
DocRecordsDocFromOne(chs, d) ==
    [i \in 1..Len(chs) |->
        [text |-> chs[i], doc_id |-> d + 1, chunk_id |-> i - 1,
         total_chunks |-> Len(chs)]]

\* The records chunk_documents appends for one document: one per chunk,
\* chunk_id counted from 0, total_chunks = len(chunks).
DocRecords(chs, d) ==
    [i \in 1..Len(chs) |->
        [text |-> chs[i], doc_id |-> d, chunk_id |-> i - 1,
         total_chunks |-> Len(chs)]]

\* A user calls chunker.chunk_documents(docs).
ChunkDocumentsCall(docs) ==
    /\ pc = "idle"
    /\ documents' = docs
    /\ doc_id' = 0
    /\ chunked_docs' = <<>>
    /\ caller' = "chunk_documents"
    /\ pc' = "doc_loop"
    /\ UNCHANGED << config, textVars >>
    /\ UNCHANGED << splitVars, threadVars >>
    /\ UNCHANGED retrVars

\* The head of chunk_documents' for loop: chunk_text on the next document,
\* or, past the last one, return chunked_docs.
DocNext ==
    /\ pc = "doc_loop"
    /\ IF doc_id < Len(documents)
       THEN Enter(documents[doc_id + 1])
       ELSE /\ pc' = "docs_returned"
            /\ UNCHANGED textVars
    /\ UNCHANGED << config, caller, docVars >>
    /\ UNCHANGED << splitVars, threadVars >>
    /\ UNCHANGED retrVars

\* chunk_text returned inside chunk_documents: the inner for loop appends
\* the document's records.
DocCollect ==
    /\ pc = "returned"
    /\ caller = "chunk_documents"
    /\ chunked_docs' = chunked_docs \o DocRecords(result, doc_id)
    /\ doc_id' = doc_id + 1
    /\ pc' = "doc_loop"
    /\ UNCHANGED << config, caller, textVars, documents >>
    /\ UNCHANGED << splitVars, threadVars >>
    /\ UNCHANGED retrVars

\* The user takes the result (or its exception) and may call again.
Resume ==
    /\ \/ pc = "returned" /\ caller = "user"
       \/ pc = "raised"
       \/ pc = "docs_returned"
    /\ pc' = "idle"
    /\ caller' = "none"
    /\ text' = <<>>
    /\ tokens' = <<>>
    /\ start_idx' = 0
    /\ chunks' = <<>>
    /\ ranges' = <<>>
    /\ encode_calls' = 0
    /\ result' = <<>>
    /\ documents' = <<>>
    /\ doc_id' = 0
    /\ chunked_docs' = <<>>
    /\ UNCHANGED config
    /\ UNCHANGED << splitVars, threadVars >>
    /\ UNCHANGED retrVars

Next ==
    \/ \E size \in 1..MaxSize, overlap \in 0..MaxSize : Construct(size, overlap)
    \/ \E t \in Texts : ChunkTextCall(t)
    \/ LoopStep
    \/ \E docs \in DocLists : ChunkDocumentsCall(docs)
    \/ DocNext
    \/ DocCollect
    \/ Resume

Spec == Init /\ [][Next]_vars

FaultNext ==
    \/ Next
    \/ DecodeFails

\* The chunker with a tokenizer whose decode may fail as well.
FaultSpec == Init /\ [][FaultNext]_vars

\* TextChunker.simple_split(t, m, sep), a static method: called on the class
\* or on an instance. Up to its for loop.
SimpleSplitCall(t, m, sep) ==
    /\ pc \in {"new", "idle"}
    /\ caller' = IF pc = "new" THEN "class" ELSE "instance"
    /\ split_text' = t
    /\ max_length' = m
    /\ separator' = sep
    /\ part_idx' = 0
    /\ current_chunk' = <<>>
    /\ split_chunks' = <<>>
    /\ cur_first' = 0
    /\ chunk_spans' = <<>>
    /\ IF t = <<>>
       THEN /\ parts' = <<>>
            /\ pc' = "split_returned"
       ELSE IF sep = <<>>
       THEN /\ parts' = <<>>
            /\ pc' = "split_raised"
       ELSE /\ parts' = Split(t, sep)
            /\ pc' = "split_loop"
    /\ UNCHANGED << config, textVars, docVars, threadVars >>
    /\ UNCHANGED retrVars

\* One iteration of simple_split's for loop; past the last part, the final
\* flush and the return.
SplitStep ==
    /\ pc = "split_loop"
    /\ IF part_idx < Len(parts)
       THEN LET part == parts[part_idx + 1]
            IN  /\ part_idx' = part_idx + 1
                /\ IF Fits(current_chunk, part, separator, max_length)
                   THEN /\ current_chunk' = Joined(current_chunk, separator, part)
                        /\ cur_first' = IF current_chunk # <<>> THEN cur_first
                                        ELSE part_idx + 1
                        /\ UNCHANGED << split_chunks, chunk_spans >>
                   ELSE /\ split_chunks' = Flushed(split_chunks, current_chunk)
                        /\ chunk_spans' =
                              IF Len(split_chunks') > Len(split_chunks)
                              THEN Append(chunk_spans, <<cur_first, part_idx>>)
                              ELSE chunk_spans
                        /\ current_chunk' = part
                        /\ cur_first' = part_idx + 1
                /\ UNCHANGED pc
       ELSE /\ split_chunks' = Flushed(split_chunks, current_chunk)
            /\ chunk_spans' =
                  IF Len(split_chunks') > Len(split_chunks)
                  THEN Append(chunk_spans, <<cur_first, part_idx>>)
                  ELSE chunk_spans
            /\ pc' = "split_returned"
            /\ UNCHANGED << part_idx, current_chunk, cur_first >>
    /\ UNCHANGED << config, caller, textVars, docVars, split_text, max_length,
                    separator, parts, threadVars >>
    /\ UNCHANGED retrVars

\* The caller takes simple_split's result (or its ValueError).
SplitResume ==
    /\ pc \in {"split_returned", "split_raised"}
    /\ pc' = IF caller = "class" THEN "new" ELSE "idle"
    /\ caller' = "none"
    /\ split_text' = <<>>
    /\ max_length' = 0
    /\ separator' = <<>>
    /\ parts' = <<>>
    /\ part_idx' = 0
    /\ current_chunk' = <<>>
    /\ split_chunks' = <<>>
    /\ cur_first' = 0
    /\ chunk_spans' = <<>>
    /\ UNCHANGED << config, textVars, docVars, threadVars >>
    /\ UNCHANGED retrVars

SplitNext ==
    \/ \E t \in SplitTexts, m \in 1..MaxSplitLen, sep \in Separators :
          SimpleSplitCall(t, m, sep)
    \/ SplitStep
    \/ SplitResume

\* simple_split alone, called on the class.
SplitSpec == Init /\ [][SplitNext]_vars

\* The texts simple_split is tried on beside the other operations.
FrameSplitTexts ==
    { <<>>, <<"a">>, <<"a", "\n", "a">>, <<"\n", "\n", "a">>, ExampleText }

\* Every operation of the chunker.
AllNext ==
    \/ Next
    \/ \E t \in FrameSplitTexts, m \in 1..MaxSplitLen, sep \in Separators :
          SimpleSplitCall(t, m, sep)
    \/ SplitStep
    \/ SplitResume

AllSpec == Init /\ [][AllNext]_vars

\* ------------------------------------------------------------ threads

\* The texts and document lists the threads call the chunker with.
ConcTexts ==
    { <<" ">>, <<"a">>, <<"a", " ", "a", " ", "a">>, <<"u", "a", "a">>,
      <<"x">> }

ConcDocLists ==
    { << <<"a", " ", "a", " ", "a">>, <<"u", "a", "a">> >>,
      << <<"a">>, <<"x">> >> }

\* What chunk_documents(docs) returns for the first n documents when it runs
\* alone.
RECURSIVE ChunkDocumentsFn(_, _, _, _)
ChunkDocumentsFn(docs, n, size, overlap) ==
    IF n = 0 THEN <<>>
    ELSE ChunkDocumentsFn(docs, n - 1, size, overlap)
            \o DocRecords(ChunkTextFn(docs[n], size, overlap), n - 1)

\* Frame with the locals kept in one place for all calls (as attributes of
\* the instance would be).
SharedFrame(t) == 1

\* The frame that holds the locals of thread t's call: its own, since
\* tokens, start_idx, end_idx and chunks are local variables.
Frame(t) == t

\* The thread positions inside a call.
InCall == {"enter", "loop", "doc_loop", "collect"}

\* overlapped after a step of thread u (begins: the step starts u's call).
Overlap(u, begins) ==
    [t \in Threads |->
        IF t = u THEN (IF begins THEN FALSE ELSE overlapped[u])
        ELSE overlapped[t] \/ tpc[t] \in InCall]

\* chunk_text in thread t returns v, to the thread or to its chunk_documents;
\* fr is frames after the step's own assignments.
Deliver(t, v, fr) ==
    IF targ[t][1] = "chunk_documents"
    THEN /\ frames' = [fr EXCEPT ![Frame(t)].doc_chunks = v]
         /\ tpc' = [tpc EXCEPT ![t] = "collect"]
         /\ UNCHANGED tres
    ELSE /\ frames' = fr
         /\ tpc' = [tpc EXCEPT ![t] = "returned"]
         /\ tres' = [tres EXCEPT ![t] = v]

\* Thread t calls chunker.chunk_text(txt).
ThreadChunkTextCall(t, txt) ==
    /\ pc = "idle"
    /\ tpc[t] = "idle"
    /\ targ' = [targ EXCEPT ![t] = <<"chunk_text", txt>>]
    /\ frames' = [frames EXCEPT ![Frame(t)].text = txt]
    /\ tpc' = [tpc EXCEPT ![t] = "enter"]
    /\ overlapped' = Overlap(t, TRUE)
    /\ UNCHANGED << pc, config, caller, textVars, docVars, splitVars, tres >>
    /\ UNCHANGED retrVars

\* chunk_text in thread t up to its loop.
ThreadEnter(t) ==
    /\ tpc[t] = "enter"
    /\ LET f == frames[Frame(t)]
           toks == Encode(f.text)
       IN  IF IsBlank(f.text) THEN Deliver(t, <<>>, frames)
           ELSE IF EncodeRaises(f.text)
           THEN /\ tpc' = [tpc EXCEPT ![t] = "raised"]
                /\ UNCHANGED << frames, tres >>
           ELSE IF Len(toks) <= chunk_size
           THEN Deliver(t, SingleChunk(f.text, toks),
                        [frames EXCEPT ![Frame(t)].tokens = toks])
           ELSE /\ frames' = [frames EXCEPT ![Frame(t)] =
                                [f EXCEPT !.tokens = toks, !.chunks = <<>>,
                                          !.start_idx = 0]]
                /\ tpc' = [tpc EXCEPT ![t] = "loop"]
                /\ UNCHANGED tres
    /\ overlapped' = Overlap(t, FALSE)
    /\ UNCHANGED << pc, config, caller, textVars, docVars, splitVars, targ >>
    /\ UNCHANGED retrVars

\* One iteration of chunk_text's while loop in thread t.
ThreadLoopStep(t) ==
    /\ tpc[t] = "loop"
    /\ LET f == frames[Frame(t)]
       IN  /\ Len(f.chunks) < MaxIter
           /\ IF f.start_idx < Len(f.tokens)
              THEN LET end_idx == EndIdx(f.start_idx, chunk_size, Len(f.tokens))
                       chs == Append(f.chunks,
                                     Decode(PySlice(f.tokens, f.start_idx, end_idx)))
                   IN  IF end_idx = Len(f.tokens)
                       THEN Deliver(t, chs,
                                    [frames EXCEPT ![Frame(t)].chunks = chs])
                       ELSE /\ frames' = [frames EXCEPT ![Frame(t)] =
                                  [f EXCEPT !.chunks = chs,
                                            !.start_idx =
                                                NextStart(end_idx, chunk_overlap)]]
                            /\ UNCHANGED << tpc, tres >>
              ELSE Deliver(t, f.chunks, frames)
    /\ overlapped' = Overlap(t, FALSE)
    /\ UNCHANGED << pc, config, caller, textVars, docVars, splitVars, targ >>
    /\ UNCHANGED retrVars

\* Thread t calls chunker.chunk_documents(docs).
ThreadChunkDocumentsCall(t, docs) ==
    /\ pc = "idle"
    /\ tpc[t] = "idle"
    /\ targ' = [targ EXCEPT ![t] = <<"chunk_documents", docs>>]
    /\ frames' = [frames EXCEPT ![Frame(t)] =
                    [@ EXCEPT !.documents = docs, !.doc_id = 0,
                              !.chunked_docs = <<>>]]
    /\ tpc' = [tpc EXCEPT ![t] = "doc_loop"]
    /\ overlapped' = Overlap(t, TRUE)
    /\ UNCHANGED << pc, config, caller, textVars, docVars, splitVars, tres >>
    /\ UNCHANGED retrVars

\* The head of chunk_documents' for loop in thread t.
ThreadDocNext(t) ==
    /\ tpc[t] = "doc_loop"
    /\ LET f == frames[Frame(t)]
       IN  IF f.doc_id < Len(f.documents)
           THEN /\ frames' = [frames EXCEPT ![Frame(t)].text =
                                f.documents[f.doc_id + 1]]
                /\ tpc' = [tpc EXCEPT ![t] = "enter"]
                /\ UNCHANGED tres
           ELSE /\ tres' = [tres EXCEPT ![t] = f.chunked_docs]
                /\ tpc' = [tpc EXCEPT ![t] = "returned"]
                /\ UNCHANGED frames
    /\ overlapped' = Overlap(t, FALSE)
    /\ UNCHANGED << pc, config, caller, textVars, docVars, splitVars, targ >>
    /\ UNCHANGED retrVars

\* chunk_documents' inner for loop in thread t; chunk_text's frame is gone.
ThreadDocCollect(t) ==
    /\ tpc[t] = "collect"
    /\ LET f == frames[Frame(t)]
       IN  frames' = [frames EXCEPT ![Frame(t)] =
              [f EXCEPT !.chunked_docs = @ \o DocRecords(f.doc_chunks, f.doc_id),
                        !.doc_id = @ + 1,
                        !.text = <<>>, !.tokens = <<>>, !.start_idx = 0,
                        !.chunks = <<>>]]
    /\ tpc' = [tpc EXCEPT ![t] = "doc_loop"]
    /\ overlapped' = Overlap(t, FALSE)
    /\ UNCHANGED << pc, config, caller, textVars, docVars, splitVars, targ,
                    tres >>
    /\ UNCHANGED retrVars

\* Thread t takes its call's result (or exception); the call's frame is gone.
ThreadResume(t) ==
    /\ tpc[t] \in {"returned", "raised"}
    /\ tpc' = [tpc EXCEPT ![t] = "idle"]
    /\ targ' = [targ EXCEPT ![t] = <<"none", <<>>>>]
    /\ tres' = [tres EXCEPT ![t] = <<>>]
    /\ frames' = [frames EXCEPT ![Frame(t)] = EmptyFrame]
    /\ overlapped' = [overlapped EXCEPT ![t] = FALSE]
    /\ UNCHANGED << pc, config, caller, textVars, docVars, splitVars >>
    /\ UNCHANGED retrVars

ConcNext ==
    \/ \E size \in 1..MaxSize, overlap \in 0..MaxSize : Construct(size, overlap)
    \/ \E t \in Threads, txt \in ConcTexts : ThreadChunkTextCall(t, txt)
    \/ \E t \in Threads : ThreadEnter(t)
    \/ \E t \in Threads : ThreadLoopStep(t)
    \/ \E t \in Threads, docs \in ConcDocLists : ThreadChunkDocumentsCall(t, docs)
    \/ \E t \in Threads : ThreadDocNext(t)
    \/ \E t \in Threads : ThreadDocCollect(t)
    \/ \E t \in Threads : ThreadResume(t)

\* Two threads calling one chunker, their steps interleaved in any order.
ConcSpec == Init /\ [][ConcNext]_vars

\* ------------------------------------------------- the Retriever's actions

chunkerVars == << pc, config, caller, textVars, docVars, splitVars, threadVars >>

\* Retriever(), in the first or a later run of the program: an empty cache;
\* the databases are what earlier runs left, and whether relevanceai can be
\* imported is the same in every run.
NewRetriever(avail) ==
    /\ rpc = "new" \/ (rpc = "idle" /\ avail = relevance_available)
    /\ rpc' = "idle"
    /\ relevance_available' = avail
    /\ stores' = NoStores
    /\ insts' = <<>>
    /\ op' = NoOp
    /\ outcome' = "none"
    /\ ret' = <<>>
    /\ calls' = <<>>
    /\ stored' = <<>>
    /\ UNCHANGED << backend, chunkerVars >>

\* Operation o ran with result r.
Apply(o, r) ==
    /\ rpc = "idle"
    /\ Len(r.w.insts) <= MaxInst
    /\ stores' = r.w.stores
    /\ insts' = r.w.insts
    /\ backend' = r.w.backend
    /\ op' = o
    /\ outcome' = r.out
    /\ ret' = r.ret
    /\ calls' = r.calls
    /\ stored' = r.stored
    /\ UNCHANGED << rpc, relevance_available, chunkerVars >>

AddDocuments(texts, t, fault) ==
    Apply([NoOp EXCEPT !.name = "add_documents", !.store_type = t,
                       !.texts = texts],
          AddDocumentsOp(World, texts, t, fault))

Retrieve(t, top_k, filter_dict, fault) ==
    Apply([NoOp EXCEPT !.name = "retrieve", !.store_type = t,
                       !.top_k = top_k, !.filter_dict = filter_dict],
          RetrieveOp(World, t, top_k, filter_dict, fault))

RetrieveAll(top_k, sl, faults) ==
    Apply([NoOp EXCEPT !.name = "retrieve_all", !.top_k = top_k,
                       !.stores = sl],
          RetrieveAllFrom(World, top_k, sl, faults, 1, NoStores, <<>>))

ClearStore(t, fault) ==
    Apply([NoOp EXCEPT !.name = "clear_store", !.store_type = t],
          ClearStoreOp(World, t, fault))

ReplaceKnowledgeBase(texts, t, fault1, fault2) ==
    Apply([NoOp EXCEPT !.name = "replace_knowledge_base", !.store_type = t,
                       !.texts = texts],
          ReplaceOp(World, texts, t, fault1, fault2))

Cleanup ==
    Apply([NoOp EXCEPT !.name = "cleanup"], CleanupOp(World))

\* The list of texts tried where the texts themselves do not matter.
SomeTexts == << <<"a">> >>

RetrNext ==
    \/ \E avail \in BOOLEAN : NewRetriever(avail)
    \/ \E t \in StoreArgs, fault \in {"none", "create"} :
          AddDocuments(SomeTexts, t, fault)
    \/ \E t \in StoreArgs, fault \in {"none", "query"} :
          Retrieve(t, 8, "None", fault)
    \/ \E faults \in [1..2 -> {"none", "query"}] :
          RetrieveAll(5, DefaultStores, faults)
    \/ \E t \in StoreArgs, fault \in {"none", "ctor", "delete"} :
          ClearStore(t, fault)
    \/ \E t \in StoreArgs, fault1 \in {"none", "delete"}, fault2 \in {"none", "write"} :
          /\ fault1 = "none" \/ fault2 = "none"
          /\ ReplaceKnowledgeBase(SomeTexts, t, fault1, fault2)
    \/ Cleanup

\* A Retriever and the operations of its users, one at a time.
RetrSpec == Init /\ [][RetrNext]_vars

QueryNext ==
    \/ \E avail \in BOOLEAN : NewRetriever(avail)
    \/ \E t \in StoreTypes : AddDocuments(SomeTexts, t, "none")
    \/ \E t \in StoreArgs, top_k \in TopKs, f \in Filters,
          fault \in {"none", "ctor", "embed", "query"} :
          Retrieve(t, top_k, f, fault)

\* A Retriever that is filled and queried with retrieve.
QuerySpec == Init /\ [][QueryNext]_vars

AllStoresNext ==
    \/ \E avail \in BOOLEAN : NewRetriever(avail)
    \/ \E t \in StoreTypes : AddDocuments(SomeTexts, t, "none")
    \/ \E sl \in StoreLists, faults \in [1..2 -> {"none", "ctor", "query"}] :
          RetrieveAll(5, sl, faults)

\* A Retriever that is filled and queried with retrieve_all.
AllStoresSpec == Init /\ [][AllStoresNext]_vars

AddNext ==
    \/ \E avail \in BOOLEAN : NewRetriever(avail)
    \/ \E texts \in TextLists, t \in StoreTypes, fault \in {"none", "embed", "write"} :
          AddDocuments(texts, t, fault)

\* A Retriever that is filled with every list of texts.
AddSpec == Init /\ [][AddNext]_vars

\* ------------------------------------------------------------ properties

\* The configuration the chunk walk is specified for.
ValidCfg == 0 <= chunk_overlap /\ chunk_overlap < chunk_size

\* t is empty or holds whitespace only.
OnlyWhitespace(t) == \A i \in 1..Len(t) : t[i] = " "

\* chunk_text has returned (to the user or to chunk_documents).
Returned == pc = "returned"

\* chunk_text has returned the chunks of a walk: the text is not blank and
\* has more tokens than chunk_size.
ReturnedWalk ==
    Returned /\ ~OnlyWhitespace(text) /\ Len(tokens) > chunk_size

\* The token indices of range r = <<start, end>>.
Indices(r) == r[1] .. (r[2] - 1)

CeilDiv(a, b) == (a + b - 1) \div b

\* C1: a chunker with chunk_overlap >= chunk_size is never constructed:
\* every constructed chunker has chunk_overlap < chunk_size.
C1_ConstructionRejectsBadOverlap ==
    pc # "new" => chunk_overlap < chunk_size

\* C2: the walk of a constructed chunker (chunk_size >= 1, chunk_overlap >= 0)
\* reaches its return after finitely many iterations: while it is still
\* walking it has made no more iterations than the text has tokens.
C2_WalkTerminates ==
    (pc = "loop" /\ chunk_size >= 1 /\ chunk_overlap >= 0)
        => Len(chunks) <= Len(tokens)

\* C3: with 0 <= chunk_overlap < chunk_size every chunk is the decoded token
\* range [start_idx, end_idx) of the text's tokens, of at most chunk_size
\* tokens; a text returned as a single chunk has at most chunk_size tokens.
C3_ChunkWithinSize ==
    ValidCfg =>
        /\ \A i \in 1..Len(ranges) :
              /\ 0 <= ranges[i][1]
              /\ ranges[i][1] < ranges[i][2]
              /\ ranges[i][2] <= Len(tokens)
              /\ ranges[i][2] - ranges[i][1] <= chunk_size
        /\ Len(chunks) = 0 \/ Len(chunks) = Len(ranges)
        /\ \A i \in 1..Len(chunks) :
              chunks[i] = Decode(SubSeq(tokens, ranges[i][1] + 1, ranges[i][2]))
        /\ (Returned /\ result = <<text>>) => Len(Encode(text)) <= chunk_size

\* C3's case: a walk returned several chunks, one of them of chunk_size tokens.
C3_Witness ==
    /\ ValidCfg
    /\ ReturnedWalk
    /\ Len(result) >= 2
    /\ \E i \in 1..Len(ranges) : ranges[i][2] - ranges[i][1] = chunk_size

\* C4: with 0 <= chunk_overlap < chunk_size and more tokens than chunk_size,
\* the ranges of the returned chunks cover every token index: the first
\* starts at 0, each next one starts at or before the end of the one before,
\* the last ends at total_tokens.
C4_RangesCoverTokens ==
    (ValidCfg /\ ReturnedWalk) =>
        /\ Len(ranges) = Len(result)
        /\ Len(ranges) >= 1
        /\ ranges[1][1] = 0
        /\ \A i \in 1..(Len(ranges) - 1) : ranges[i + 1][1] <= ranges[i][2]
        /\ ranges[Len(ranges)][2] = Len(tokens)
        /\ \A k \in 0..(Len(tokens) - 1) :
              \E i \in 1..Len(ranges) : k \in Indices(ranges[i])

\* C4's case: a walk with no overlap returned three chunks or more.
C4_Witness ==
    /\ ValidCfg
    /\ ReturnedWalk
    /\ chunk_overlap = 0
    /\ Len(result) >= 3

\* C5: with 0 <= chunk_overlap < chunk_size, two consecutive chunks of which
\* the second is not the final one share exactly chunk_overlap token
\* indices: the last chunk_overlap of the first, the first chunk_overlap of
\* the second.
C5_ConsecutiveOverlap ==
    (ValidCfg /\ ReturnedWalk) =>
        \A i \in 1..(Len(ranges) - 2) :
            LET a == ranges[i]
                b == ranges[i + 1]
                shared == Indices(a) \cap Indices(b)
            IN  /\ Cardinality(shared) = chunk_overlap
                /\ shared = Indices(<<a[2] - chunk_overlap, a[2]>>)
                /\ shared = Indices(<<b[1], b[1] + chunk_overlap>>)

\* C5's case: a walk with an overlap returned three chunks or more.
C5_Witness ==
    /\ ValidCfg
    /\ ReturnedWalk
    /\ chunk_overlap >= 1
    /\ Len(result) >= 3

\* C6: chunk_text returns ceil((total_tokens - chunk_overlap) / (chunk_size -
\* chunk_overlap)) chunks (one per loop iteration) for a non-blank text of
\* more than chunk_size tokens under 0 <= chunk_overlap < chunk_size, 1 chunk
\* for a non-blank text of at most chunk_size tokens, 0 for empty input.
C6_ChunkCount ==
    Returned =>
        /\ text = <<>> => Len(result) = 0
        /\ (~OnlyWhitespace(text) /\ Len(Encode(text)) <= chunk_size)
              => Len(result) = 1
        /\ (~OnlyWhitespace(text) /\ Len(Encode(text)) > chunk_size /\ ValidCfg)
              => /\ Len(result) =
                      CeilDiv(Len(Encode(text)) - chunk_overlap,
                              chunk_size - chunk_overlap)
                 /\ Len(result) = Len(ranges)

\* C6's case: a walk with an overlap returned, and the count is not the
\* count without overlap.
C6_Witness ==
    /\ ValidCfg
    /\ ReturnedWalk
    /\ chunk_overlap >= 1
    /\ Len(result) >= 3
    /\ Len(result) # CeilDiv(Len(tokens), chunk_size)

\* C7 as stated: for any text of at most chunk_size tokens chunk_text returns
\* exactly [text].
C7_AnyShortTextReturnedWhole ==
    (Returned /\ Len(Encode(text)) <= chunk_size) => result = <<text>>

\* C7, amended: for any text that is not blank and has at most chunk_size
\* tokens chunk_text returns exactly [text], the original string.
C7_ShortTextReturnedWhole ==
    (Returned /\ ~OnlyWhitespace(text) /\ Len(Encode(text)) <= chunk_size)
        => result = <<text>>

\* C7's case: a short text that the tokenizer does not round-trip was
\* returned.
C7_Witness ==
    /\ Returned
    /\ ~OnlyWhitespace(text)
    /\ Len(tokens) <= chunk_size
    /\ Decode(tokens) # text

\* C8: on an empty or whitespace-only text chunk_text returns the empty
\* sequence, raises nothing and does not run the tokenizer.
C8_BlankGivesEmpty ==
    (pc \in {"loop", "returned", "raised"} /\ OnlyWhitespace(text))
        => /\ pc = "returned"
           /\ result = <<>>
           /\ encode_calls = 0

\* C8's case: chunk_text returned on a whitespace-only text.
C8_Witness ==
    /\ Returned
    /\ caller = "user"
    /\ Len(text) >= 1
    /\ OnlyWhitespace(text)

\* C9 as stated: for every text of at least one character chunk_text returns
\* a sequence of length >= 1.
C9_NonEmptyGivesChunk ==
    (Returned /\ Len(text) >= 1) => Len(result) >= 1

\* C9, amended: for every text that holds a character other than whitespace,
\* the sequence chunk_text returns has length >= 1.
C9_NonBlankGivesChunk ==
    (Returned /\ ~OnlyWhitespace(text)) => Len(result) >= 1

\* C9's case: chunk_text returned on a non-blank text, as a single chunk.
C9_Witness ==
    /\ Returned
    /\ caller = "user"
    /\ ~OnlyWhitespace(text)
    /\ Len(tokens) <= chunk_size

\* The records of document d in chunk_documents' output, in order.
RecordsOf(d) == SelectSeq(chunked_docs, LAMBDA r : r.doc_id = d)

\* C10: in chunk_documents' output the records of each document d carry
\* chunk_id 0, 1, ..., N-1 in that order and total_chunks = N, N being the
\* number of records of d, which is the length of chunk_text of d.
C10_ChunkIdsPerDocument ==
    /\ \A d \in 0..(Len(documents) - 1) :
          \A i \in 1..Len(RecordsOf(d)) :
              /\ RecordsOf(d)[i].chunk_id = i - 1
              /\ RecordsOf(d)[i].total_chunks = Len(RecordsOf(d))
    /\ (pc = "doc_loop" /\ doc_id >= 1)
          => Len(RecordsOf(doc_id - 1)) = Len(result)

\* C10's case: chunk_documents returned records of two documents, one of
\* them with several chunks.
C10_Witness ==
    /\ pc = "docs_returned"
    /\ Len(RecordsOf(0)) >= 1
    /\ Len(RecordsOf(1)) >= 2

\* The 'text' fields of a sequence of records.
TextsOf(recs) == [i \in 1..Len(recs) |-> recs[i].text]

\* chunk_text of the first n documents, one after the other.
RECURSIVE ChunksOfFirst(_)
ChunksOfFirst(n) ==
    IF n = 0 THEN <<>>
    ELSE ChunksOfFirst(n - 1)
            \o ChunkTextFn(documents[n], chunk_size, chunk_overlap)

\* The number of chunks of the first n documents.
RECURSIVE ChunkCountOfFirst(_)
ChunkCountOfFirst(n) ==
    IF n = 0 THEN 0
    ELSE ChunkCountOfFirst(n - 1)
            + Len(ChunkTextFn(documents[n], chunk_size, chunk_overlap))

\* C11: the 'text' fields chunk_documents returns are chunk_text(documents[0]),
\* chunk_text(documents[1]), ... one after the other (after each document:
\* those of the documents done so far); doc_id never decreases along the
\* output; the record count is the sum of the documents' chunk counts.
C11_DocumentsConcatenateChunks ==
    /\ pc \in {"doc_loop", "docs_returned"} =>
          /\ TextsOf(chunked_docs) = ChunksOfFirst(doc_id)
          /\ Len(chunked_docs) = ChunkCountOfFirst(doc_id)
    /\ pc = "docs_returned" => doc_id = Len(documents)
    /\ \A i, j \in 1..Len(chunked_docs) :
          i < j => chunked_docs[i].doc_id <= chunked_docs[j].doc_id

\* C11's case: chunk_documents returned on two documents of several chunks
\* each whose chunks differ.
C11_Witness ==
    /\ pc = "docs_returned"
    /\ Len(documents) = 2
    /\ Len(RecordsOf(0)) >= 2
    /\ Len(RecordsOf(1)) >= 2
    /\ TextsOf(RecordsOf(0)) # TextsOf(RecordsOf(1))

\* C12: an empty or whitespace-only document contributes no record and does
\* not shift the numbering: every record's doc_id is the 0-based position of
\* the document its text was chunked from.
C12_DocIdIsInputPosition ==
    /\ \A i \in 1..Len(chunked_docs) :
          LET r == chunked_docs[i]
          IN  /\ r.doc_id \in 0..(Len(documents) - 1)
              /\ ~OnlyWhitespace(documents[r.doc_id + 1])
              /\ LET chs == ChunkTextFn(documents[r.doc_id + 1],
                                        chunk_size, chunk_overlap)
                 IN  /\ r.chunk_id + 1 \in 1..Len(chs)
                     /\ r.text = chs[r.chunk_id + 1]
    /\ pc = "docs_returned" =>
          \A d \in 0..(Len(documents) - 1) :
              (RecordsOf(d) = <<>>) <=> OnlyWhitespace(documents[d + 1])

\* C12's case: chunk_documents returned records on a list whose first
\* document is blank.
C12_Witness ==
    /\ pc = "docs_returned"
    /\ Len(documents) = 2
    /\ OnlyWhitespace(documents[1])
    /\ Len(chunked_docs) >= 2
    /\ \A i \in 1..Len(chunked_docs) : chunked_docs[i].doc_id = 1

\* ---------------------------------------------- properties of simple_split

\* The strings of ps joined by sep.
RECURSIVE Join(_, _)
Join(ps, sep) ==
    IF ps = <<>> THEN <<>>
    ELSE IF Len(ps) = 1 THEN ps[1]
    ELSE ps[1] \o sep \o Join(Tail(ps), sep)

\* sep occurs in c.
Contains(c, sep) ==
    \E i \in 1..Len(c) :
        i + Len(sep) - 1 <= Len(c) /\ SubSeq(c, i, i + Len(sep) - 1) = sep

\* C13: simple_split takes the parts in order; it appends a part to the
\* running chunk (with the separator between them, when the running chunk is
\* not empty) exactly when len(current chunk) + len(separator) + len(part)
\* <= max_length, and otherwise emits the running chunk, if not empty, and
\* starts a new one equal to the part. So an emitted chunk is followed by a
\* part only when joining that part to it would have exceeded max_length.
C13_GreedyAccumulation ==
    /\ [][ (pc = "split_loop" /\ part_idx < Len(parts)) =>
             LET part == parts[part_idx + 1]
             IN  /\ part_idx' = part_idx + 1
                 /\ IF Len(current_chunk) + Len(separator) + Len(part)
                          <= max_length
                    THEN /\ split_chunks' = split_chunks
                         /\ current_chunk' =
                               IF current_chunk = <<>> THEN part
                               ELSE current_chunk \o separator \o part
                    ELSE /\ current_chunk' = part
                         /\ split_chunks' =
                               IF current_chunk = <<>> THEN split_chunks
                               ELSE Append(split_chunks, current_chunk) ]_vars
    /\ [](\A k \in 1..Len(split_chunks) :
            chunk_spans[k][2] < Len(parts) =>
                Len(split_chunks[k]) + Len(separator)
                    + Len(parts[chunk_spans[k][2] + 1]) > max_length)

\* C13's case: simple_split returned a chunk joined from two parts and then
\* a further chunk.
C13_Witness ==
    /\ pc = "split_returned"
    /\ Len(split_chunks) >= 2
    /\ chunk_spans[1][2] > chunk_spans[1][1]

ExampleReturned ==
    /\ pc = "split_returned"
    /\ split_text = ExampleText
    /\ max_length = 5
    /\ separator = <<"\n", "\n">>

OnlySeparators(t, sep) ==
    /\ sep # <<>>
    /\ t # <<>>
    /\ \E n \in 1..Len(t) : Split(t, sep) = [i \in 1..(n + 1) |-> <<>>]

\* C16: simple_split never returns an empty string as a chunk; the empty
\* text and a text made only of separators give the empty sequence.
C16_NoEmptyChunk ==
    /\ \A k \in 1..Len(split_chunks) : split_chunks[k] # <<>>
    /\ (pc = "split_returned"
          /\ (split_text = <<>> \/ OnlySeparators(split_text, separator)))
          => split_chunks = <<>>

\* C16's case: simple_split returned chunks of a text that ends with a
\* separator, and the final running chunk, being empty, was not flushed.
C16_Witness ==
    /\ pc = "split_returned"
    /\ Len(parts) >= 2
    /\ parts[Len(parts)] = <<>>
    /\ current_chunk = <<>>
    /\ Len(split_chunks) >= 1

\* ---------------------------------------------- properties of the instance

\* C17: once the chunker is constructed, no step of chunk_text,
\* chunk_documents or simple_split, returning or raising, changes its
\* chunk_size, chunk_overlap or encoding.
C17_ConfigurationImmutable ==
    [][ pc # "new" =>
          /\ chunk_size' = chunk_size
          /\ chunk_overlap' = chunk_overlap
          /\ encoding' = encoding ]_vars

\* C17's case: on a constructed chunker chunk_documents raised after it had
\* collected records, or simple_split returned chunks.
C17_Witness ==
    /\ encoding = "cl100k_base"
    /\ \/ pc = "raised" /\ caller = "chunk_documents" /\ Len(chunked_docs) >= 1
       \/ pc = "split_returned" /\ caller = "instance" /\ Len(split_chunks) >= 2

\* ---------------------------------------------- properties of the threads

\* The argument of thread t's call makes the tokenizer raise.
RaisesAlone(t) ==
    IF targ[t][1] = "chunk_text"
    THEN ~OnlyWhitespace(targ[t][2]) /\ EncodeRaises(targ[t][2])
    ELSE \E i \in 1..Len(targ[t][2]) :
            ~OnlyWhitespace(targ[t][2][i]) /\ EncodeRaises(targ[t][2][i])

\* What thread t's call returns when it runs alone.
ResultAlone(t) ==
    IF targ[t][1] = "chunk_text"
    THEN ChunkTextFn(targ[t][2], chunk_size, chunk_overlap)
    ELSE ChunkDocumentsFn(targ[t][2], Len(targ[t][2]), chunk_size, chunk_overlap)

\* C18: with the steps of the threads' chunk_text / chunk_documents calls on
\* one chunker interleaved in any order, each call returns the result it
\* returns when run alone (and raises only if it raises alone).
C18_CallsDoNotInterfere ==
    \A t \in Threads :
        /\ tpc[t] = "returned" => ~RaisesAlone(t) /\ tres[t] = ResultAlone(t)
        /\ tpc[t] = "raised" => RaisesAlone(t)

\* C18's case: a call returned several chunks or records after another
\* thread had taken steps during it, and that thread is in the middle of a
\* walk of a different text.
C18_Witness ==
    \E t, u \in Threads :
        /\ t # u
        /\ tpc[t] = "returned"
        /\ overlapped[t]
        /\ Len(tres[t]) >= 2
        /\ tpc[u] = "loop"
        /\ Len(frames[u].chunks) >= 1
        /\ targ[u] # targ[t]

\* ------------------------------------- properties of tokenizer failures

\* Encoding t fails: chunk_text gets as far as encode and t holds a special
\* token.
EncodeFailsOn(t) == ~OnlyWhitespace(t) /\ \E i \in 1..Len(t) : t[i] = "x"

\* C19: a tokenizer failure in chunk_text (encode, or decode in the middle
\* of the walk) ends the call as an exception with no chunk list; in
\* chunk_documents it ends the whole call, with no records returned, those
\* of the documents already chunked included.
C19_TokenizerFailurePropagates ==
    /\ [](pc = "returned" => ~EncodeFailsOn(text))
    /\ [](pc = "docs_returned" =>
            \A i \in 1..Len(documents) : ~EncodeFailsOn(documents[i]))
    /\ [](pc = "raised" => result = <<>>)
    /\ [][(pc \in {"idle", "doc_loop"}
            /\ pc' \notin {"idle", "doc_loop", "docs_returned"}
            /\ EncodeFailsOn(text'))
          => pc' = "raised"]_vars
    /\ [][(pc = "loop" /\ start_idx < Len(tokens) /\ chunks' = chunks)
          => (pc' = "raised" /\ result' = <<>>)]_vars
    /\ [][pc = "raised"
          => (pc' = "idle" /\ result' = <<>> /\ chunked_docs' = <<>>)]_vars

\* C19's case: inside chunk_documents the tokenizer failed in the middle of
\* a walk, after the walk had made a chunk and an earlier document's records
\* had been collected.
C19_Witness ==
    /\ pc = "raised"
    /\ caller = "chunk_documents"
    /\ Len(chunked_docs) >= 1
    /\ Len(chunks) >= 1
    /\ Len(tokens) > chunk_size

\* C19's other case: encode failed on a later document.
C19_WitnessEncode ==
    /\ pc = "raised"
    /\ caller = "chunk_documents"
    /\ Len(chunked_docs) >= 1
    /\ EncodeFailsOn(text)

\* --------------------------------------------------- properties of the walk

\* chunk_text is in, or has returned from, the walk of a text with more
\* tokens than chunk_size.
InWalk ==
    /\ pc \in {"loop", "returned"}
    /\ ~OnlyWhitespace(text)
    /\ Len(tokens) > chunk_size

\* C20: the walk starts at 0; every iteration ends at
\* min(start + chunk_size, total_tokens); it stops at the first iteration
\* that ends at total_tokens and otherwise goes on from end - chunk_overlap.
\* With 0 <= chunk_overlap < chunk_size the starts increase strictly, every
\* non-final chunk has chunk_size tokens and only the last ends at
\* total_tokens.
C20_WalkFollowsSteps ==
    InWalk =>
        LET n == Len(ranges)
            total_tokens == Len(tokens)
        IN  /\ n = 0 => pc = "loop" /\ start_idx = 0
            /\ n > 0 => ranges[1][1] = 0
            /\ \A i \in 1..n :
                  ranges[i][2] = IF ranges[i][1] + chunk_size < total_tokens
                                 THEN ranges[i][1] + chunk_size
                                 ELSE total_tokens
            /\ \A i \in 1..(n - 1) :
                  /\ ranges[i][2] # total_tokens
                  /\ ranges[i + 1][1] = ranges[i][2] - chunk_overlap
            /\ (pc = "loop" /\ n > 0) =>
                  /\ ranges[n][2] # total_tokens
                  /\ start_idx = ranges[n][2] - chunk_overlap
            /\ pc = "returned" => n > 0 /\ ranges[n][2] = total_tokens
            /\ ValidCfg =>
                  /\ \A i \in 1..(n - 1) :
                        /\ ranges[i][1] < ranges[i + 1][1]
                        /\ ranges[i][2] - ranges[i][1] = chunk_size
                  /\ (pc = "loop" /\ n > 0) =>
                        /\ ranges[n][1] < start_idx
                        /\ ranges[n][2] - ranges[n][1] = chunk_size

\* C20's case: a walk of at least three iterations with an overlap has
\* returned under a valid configuration.
C20_Witness ==
    /\ InWalk
    /\ pc = "returned"
    /\ ValidCfg
    /\ chunk_overlap >= 1
    /\ Len(ranges) >= 3

\* C20's other case: the last chunk of a returned walk is shorter than
\* chunk_size.
C20_WitnessShortTail ==
    /\ InWalk
    /\ pc = "returned"
    /\ ValidCfg
    /\ ranges[Len(ranges)][2] - ranges[Len(ranges)][1] < chunk_size

\* C21: with 0 <= chunk_overlap < chunk_size every chunk after the first
\* holds a token that no earlier chunk holds and is not contained in its
\* predecessor; the final chunk has more than chunk_overlap tokens and
\* shares exactly chunk_overlap tokens with its predecessor.
C21_EveryChunkAddsTokens ==
    (InWalk /\ ValidCfg) =>
        LET n == Len(ranges)
        IN  /\ \A i \in 2..n :
                  /\ \E k \in Indices(ranges[i]) :
                        \A j \in 1..(i - 1) : k \notin Indices(ranges[j])
                  /\ ~(Indices(ranges[i]) \subseteq Indices(ranges[i - 1]))
            /\ (pc = "returned" /\ n >= 2) =>
                  /\ Cardinality(Indices(ranges[n])) > chunk_overlap
                  /\ Cardinality(Indices(ranges[n]) \cap Indices(ranges[n - 1]))
                        = chunk_overlap

\* C21's case: a returned walk with an overlap whose final chunk is shorter
\* than chunk_size (the tail is shorter than the step).
C21_Witness ==
    /\ InWalk
    /\ pc = "returned"
    /\ ValidCfg
    /\ chunk_overlap >= 1
    /\ Len(ranges) >= 2
    /\ Cardinality(Indices(ranges[Len(ranges)])) < chunk_size

\* --------------------------------------- round trip of simple_split

\* simple_split has returned for a text none of whose parts is empty.
ReturnedNoEmptyPart ==
    /\ pc = "split_returned"
    /\ split_text # <<>>
    /\ \A i \in 1..Len(parts) : parts[i] # <<>>

\* C22: when no part of the text is empty, for every max_length the returned
\* chunks joined by the separator give the text back, and the chunks are the
\* joins of consecutive runs of parts that cover all parts once, in order.
C22_SplitRoundTrip ==
    ReturnedNoEmptyPart =>
        LET n == Len(split_chunks)
        IN  /\ Join(split_chunks, separator) = split_text
            /\ Len(chunk_spans) = n
            /\ n >= 1
            /\ chunk_spans[1][1] = 1
            /\ chunk_spans[n][2] = Len(parts)
            /\ \A k \in 1..(n - 1) :
                  chunk_spans[k + 1][1] = chunk_spans[k][2] + 1
            /\ \A k \in 1..n :
                  /\ chunk_spans[k][1] <= chunk_spans[k][2]
                  /\ split_chunks[k] =
                        Join(SubSeq(parts, chunk_spans[k][1], chunk_spans[k][2]),
                             separator)

\* C22's case: a text of three non-empty parts returned as a chunk of two
\* parts followed by another chunk.
C22_Witness ==
    /\ ReturnedNoEmptyPart
    /\ Len(parts) >= 3
    /\ Len(split_chunks) >= 2
    /\ chunk_spans[1][2] > chunk_spans[1][1]
    /\ Join(split_chunks, separator) = split_text

\* ---------------------------------------------- properties of the Retriever

\* The calls of the last operation that have the given name.
CallsNamed(name) == {i \in 1..Len(calls) : calls[i].name = name}

\* C23: retrieve hands filter_dict to the store's query as its filter_dict
\* parameter, for every store type, and to no other parameter of it (such
\* as Pinecone's namespace).
C23_FilterReachesStoreFilter ==
    op.name = "retrieve" =>
        \A i \in CallsNamed("store.query") :
            /\ calls[i].filter = op.filter_dict
            /\ op.filter_dict # "None" => calls[i].namespace # op.filter_dict

\* The same for the Weaviate and Relevance AI stores only.
C23_FilterReachesOtherStores ==
    (op.name = "retrieve" /\ op.store_type # "pinecone") =>
        \A i \in CallsNamed("store.query") :
            /\ calls[i].filter = op.filter_dict
            /\ calls[i].namespace = ""

\* retrieve with a filter reached the Pinecone index.
C23_PineconeQueried ==
    /\ op.name = "retrieve"
    /\ op.store_type = "pinecone"
    /\ op.filter_dict # "None"
    /\ outcome = "ok"
    /\ CallsNamed("query") # {}

\* The operations that work on one store type.
OnOneStore == {"add_documents", "retrieve", "clear_store", "replace_knowledge_base"}

\* C24: a clear_store(t) that returns leaves t out of the cache, and the
\* next operation on t starts by constructing a store; a clear_store(t) that
\* raises (in particular because the backend delete raised) leaves the
\* instance cached for t in place.
C24_EvictAfterDelete ==
    [][/\ (op'.name = "clear_store" /\ outcome' = "ok")
            => op'.store_type \notin DOMAIN stores'
       /\ (op'.name = "clear_store" /\ outcome' = "raised"
             /\ op'.store_type \in DOMAIN stores)
            => (/\ op'.store_type \in DOMAIN stores'
                /\ stores'[op'.store_type] = stores[op'.store_type]
                /\ insts' = insts)
       /\ (op'.name = "clear_store" /\ outcome' = "raised"
             /\ calls' # <<>> /\ calls'[Len(calls')].name = "delete")
            => op'.store_type \in DOMAIN stores'
       /\ (op.name = "clear_store" /\ outcome = "ok"
             /\ op'.name \in OnOneStore /\ op'.store_type = op.store_type)
            => (/\ calls' # <<>>
                /\ \E i \in 1..Len(calls') :
                      /\ calls'[i].name = "ctor"
                      /\ \A j \in 1..(i - 1) : calls'[j].name = "clear_store"
                /\ (outcome' = "ok" \/ Len(calls') > 2)
                      => Len(insts') > Len(insts))]_vars

\* C24's case: the delete of a cached store raised and the store is still
\* cached.
C24_Witness ==
    /\ op.name = "clear_store"
    /\ outcome = "raised"
    /\ Len(calls) = 1
    /\ calls[1].name = "delete"
    /\ op.store_type \in DOMAIN stores

\* C24's other case: a cleared store type was used again and got a new
\* instance.
C24_WitnessFresh ==
    /\ op.name = "retrieve"
    /\ outcome = "ok"
    /\ op.store_type \in DOMAIN stores
    /\ stores[op.store_type] = 2
    /\ insts[1].type \in {"collected", op.store_type}
    /\ calls[1].name = "ctor"

\* C25: replace_knowledge_base starts with clear_store; add_documents is
\* entered only after clear_store's delete, with the store evicted (so it
\* constructs one), and every create, embed and write call comes after that;
\* when clear_store raises the operation raises, add_documents is not
\* entered, and nothing is written.
C25_ClearBeforeAdd ==
    /\ [](op.name = "replace_knowledge_base" =>
            /\ calls # <<>>
            /\ calls[1].name = "clear_store"
            /\ \A j \in CallsNamed("add_documents") :
                  /\ j > 1
                  /\ calls[j - 1].name = "delete"
                  /\ j < Len(calls)
                  /\ calls[j + 1].name = "ctor"
            /\ \A i \in CallsNamed("create") \cup CallsNamed("embed")
                          \cup CallsNamed("write") :
                  \E j \in CallsNamed("add_documents") : j < i
            /\ CallsNamed("add_documents") = {} =>
                  outcome = "raised" /\ stored = <<>>)
    /\ [][(op'.name = "replace_knowledge_base"
             /\ \A j \in 1..Len(calls') : calls'[j].name # "add_documents")
          => backend' = backend]_vars

\* C25's case: clear_store raised in replace_knowledge_base on a database
\* that holds records; add_documents was not entered.
C25_Witness ==
    /\ op.name = "replace_knowledge_base"
    /\ outcome = "raised"
    /\ calls[Len(calls)].name = "delete"
    /\ CallsNamed("add_documents") = {}
    /\ backend[op.store_type].filled

\* C25's other case: the replacement went through.
C25_WitnessReplaced ==
    /\ op.name = "replace_knowledge_base"
    /\ outcome = "ok"
    /\ CallsNamed("write") # {}
    /\ stored # <<>>

\* C26: the cache has keys among pinecone, weaviate, relevance only, each
\* mapped to its own instance, of that type; an operation other than a
\* clear_store or replace_knowledge_base of type t leaves the instance
\* cached for t in place; an operation on an unknown type, or on relevance
\* when it is unavailable, raises and leaves the cache as it was.
C26_OneInstancePerType ==
    /\ [](/\ DOMAIN stores \subseteq {"pinecone", "weaviate", "relevance"}
          /\ \A t \in DOMAIN stores :
                /\ stores[t] \in 1..Len(insts)
                /\ insts[stores[t]].type = t
          /\ \A t, u \in DOMAIN stores : stores[t] = stores[u] => t = u)
    /\ [][\A t \in DOMAIN stores :
             (/\ op'.name # "none"
              /\ ~(op'.name \in {"clear_store", "replace_knowledge_base"}
                     /\ op'.store_type = t))
             => (t \in DOMAIN stores' /\ stores'[t] = stores[t])]_vars
    /\ [][(/\ op'.name \in OnOneStore
           /\ \/ op'.store_type \notin {"pinecone", "weaviate", "relevance"}
              \/ op'.store_type = "relevance" /\ ~relevance_available)
          => (outcome' = "raised" /\ stores' = stores /\ insts' = insts)]_vars

\* C26's case: two store types are cached and an operation on one of them
\* ran without constructing a store.
C26_Witness ==
    /\ op.name \in {"retrieve", "add_documents"}
    /\ outcome = "ok"
    /\ CallsNamed("ctor") = {}
    /\ Cardinality(DOMAIN stores) >= 2

\* C26's other case: an operation on relevance raised because it is
\* unavailable, with a store cached.
C26_WitnessUnavailable ==
    /\ op.name \in OnOneStore
    /\ op.store_type = "relevance"
    /\ ~relevance_available
    /\ outcome = "raised"
    /\ DOMAIN stores # {}

\* The positions in the call log where retrieve_all's retrieve of store type
\* t ended.
EndsOf(t) ==
    {i \in 1..Len(calls) :
        /\ calls[i].name \in {"retrieve raised", "retrieve returned"}
        /\ calls[i].store = t}

\* retrieve_all returned a result with one key per requested store type,
\* after a retrieve for every entry of the list.
AllStoresAnswered ==
    /\ outcome = "ok"
    /\ DOMAIN ret = {op.stores[i] : i \in 1..Len(op.stores)}
    /\ Cardinality(CallsNamed("retrieve")) = Len(op.stores)
    /\ \A i \in 1..Len(op.stores) :
          \E j \in CallsNamed("retrieve") :
              /\ calls[j].store = op.stores[i]
              /\ Cardinality({k \in CallsNamed("retrieve") : k <= j}) = i

\* C27 as stated: retrieve_all does not raise, answers for every requested
\* store type, and a store type one of whose retrieves raised maps to the
\* empty list.
C27_AnyFailedStoreEmpty ==
    op.name = "retrieve_all" =>
        /\ AllStoresAnswered
        /\ \A t \in DOMAIN ret :
              (\E i \in EndsOf(t) : calls[i].name = "retrieve raised")
                  => ret[t] = <<>>

\* C27: retrieve_all does not raise; it calls retrieve for every entry of
\* the list, whatever the earlier ones did, and its result has one key per
\* requested store type; a store type whose last retrieve in the list raised
\* maps to the empty list.
C27_FailedStoreEmpty ==
    op.name = "retrieve_all" =>
        /\ AllStoresAnswered
        /\ \A t \in DOMAIN ret :
              (\E i \in EndsOf(t) :
                  /\ calls[i].name = "retrieve raised"
                  /\ \A k \in EndsOf(t) : k <= i)
                  => ret[t] = <<>>

\* C27's case: the first store of the list raised, the second was queried
\* and its matches are in the result.
C27_Witness ==
    /\ op.name = "retrieve_all"
    /\ Len(op.stores) = 2
    /\ op.stores[1] # op.stores[2]
    /\ \E i \in EndsOf(op.stores[1]) : calls[i].name = "retrieve raised"
    /\ ret[op.stores[1]] = <<>>
    /\ ret[op.stores[2]] # <<>>

\* C28: an add_documents that returns has written one record per text, the
\* i-th pairing texts[i] with the embedding of texts[i], for every list of
\* texts and every store.
C28_RecordsAlignedWithTexts ==
    (op.name = "add_documents" /\ outcome = "ok") =>
        /\ Len(stored) = Len(op.texts)
        /\ \A i \in 1..Len(stored) :
              /\ stored[i].text = op.texts[i]
              /\ stored[i].vector = Embedding(op.texts[i])

\* The same for lists in which every text has content.
C28_AlignedWhenAllHaveContent ==
    (op.name = "add_documents" /\ outcome = "ok"
        /\ \A i \in 1..Len(op.texts) : HasContent(op.texts[i])) =>
        /\ Len(stored) = Len(op.texts)
        /\ \A i \in 1..Len(stored) :
              /\ stored[i].text = op.texts[i]
              /\ stored[i].vector = Embedding(op.texts[i])

\* A record was written that pairs a text with the embedding of another.
C28_Misaligned ==
    /\ op.name = "add_documents"
    /\ outcome = "ok"
    /\ \E i \in 1..Len(stored) : stored[i].vector # Embedding(stored[i].text)

\* C29: a retrieve on pinecone that returns while the Pinecone index holds
\* records has queried the index and returns its matches, also when the
\* cached PineconeStore is one on which create_index has not run.
C29_PineconeAlwaysQueried ==
    (op.name = "retrieve" /\ op.store_type = "pinecone" /\ outcome = "ok"
        /\ backend["pinecone"].filled) =>
        /\ CallsNamed("query") # {}
        /\ ret = Tagged(Matches(World, "pinecone", op.top_k), "pinecone")

\* The same for a PineconeStore on which create_index has run.
C29_QueriedAfterCreateIndex ==
    (op.name = "retrieve" /\ op.store_type = "pinecone" /\ outcome = "ok"
        /\ backend["pinecone"].filled
        /\ insts[stores["pinecone"]].index) =>
        /\ CallsNamed("query") # {}
        /\ ret = Tagged(Matches(World, "pinecone", op.top_k), "pinecone")

\* retrieve on pinecone returned matches.
C29_MatchesReturned ==
    /\ op.name = "retrieve"
    /\ op.store_type = "pinecone"
    /\ outcome = "ok"
    /\ ret # <<>>

\* C30: once cleanup has run, no Weaviate store the Retriever created holds
\* an open connection.
C30_AllWeaviateStoresClosed ==
    op.name = "cleanup" =>
        \A i \in 1..Len(insts) : insts[i].type = "weaviate" => ~insts[i].open

\* The same for the Weaviate store that is in the cache when cleanup runs.
C30_CachedStoreClosed ==
    (op.name = "cleanup" /\ "weaviate" \in DOMAIN stores) =>
        ~insts[stores["weaviate"]].open

\* cleanup closed the cached Weaviate store.
C30_Closed ==
    /\ op.name = "cleanup"
    /\ "weaviate" \in DOMAIN stores
    /\ CallsNamed("close") # {}

=============================================================================
